---------------------------- MODULE Spec2Model ----------------------------
(* A model of the llm-debate experiment harness:                          *)
(*   src/src/api.py              llm_api_call (normalisation, dispatch,   *)
(*                               rate-limit sleep)                        *)
(*   src/src/data_structures.py  the response records and their scoring   *)
(*   src/src/functions.py        the two-option generators and the        *)
(*                               subset selector                          *)
(* Strings are sequences of one-character strings.                        *)
EXTENDS Integers, Sequences, FiniteSets, TLC

VARIABLES
    \* ---- message-content normalisation (api.py:26-36) ----
    content,        \* the content of the message as given by the caller
    passes,         \* how many times the normalisation has been applied
    normalized,     \* the results of the applications, in order
    \* ---- llm_api_call (api.py:23-76) ----
    clock,              \* wall clock, ms since the first call started
    model_id,           \* model_id of the last call
    outcome,            \* how the last call ended: "returned" or the error raised
    requests,           \* the requests the last call sent to the vendor clients
    sleep_time_in_ms,   \* how long the last call slept before returning
    returns_in_window,  \* claude-3 calls returned in the first 60,000 ms
    \* ---- scoring of one response record (data_structures.py) ----
    record,         \* the response record being scored
    last_call,      \* the last set_is_correct call on it and how it went
    \* ---- select_subset_of_mmlu_questions (functions.py:161-229) ----
    questions_db,            \* the questions table, in insertion order
    zero_shot_responses_db,  \* the responses table, in insertion order
    desired_subset_size,     \* the k of the last selection
    select_outcome,          \* "none", "returned" or the error raised
    subset_questions_db,     \* the table returned, in insertion order
    \* ---- the two-option generators (functions.py:116-158, 251-305) ----
    gen_function,   \* which generator is running
    gen_model_id,   \* its model_id argument
    gen_question,   \* its question argument
    gen_pc,         \* "idle", "loop", "returned" or "raised"
    gen_prompts,    \* the prompts handed to llm_api_call so far
    responses,      \* the generator's local list of records
    gen_result      \* the list returned to the caller

normVars == <<content, passes, normalized>>

gwVars == <<clock, model_id, outcome, requests, sleep_time_in_ms,
            returns_in_window>>

scoreVars == <<record, last_call>>

selVars == <<questions_db, zero_shot_responses_db, desired_subset_size,
             select_outcome, subset_questions_db>>

genVars == <<gen_function, gen_model_id, gen_question, gen_pc, gen_prompts,
             responses, gen_result>>

vars == <<normVars, gwVars, scoreVars, selVars, genVars>>

------------------------------------------------------------------------
(* Bounds *)

\* longest message content enumerated
MaxLen == 8

\* no call starts once the clock has reached this many ms
MaxClock == 61000

\* longest response text of a four-option or two-option record
MaxResponseLen == 2

\* most chunks a classification verdict is made of
MaxVerdictChunks == 2

\* most rows of the zero-shot responses table
MaxResponses == 4

------------------------------------------------------------------------
(* Strings *)

SP == " "
NL == "\n"

\* the characters message contents are drawn from
Chars == {"a", SP, NL}

\* str.isspace for the characters of the model
IsSpace(c) == c \in {SP, NL}

Strings(n) == UNION {[1..k -> Chars] : k \in 0..n}

Spaces(n) == [i \in 1..n |-> SP]

\* s[from..] starts with pat
StartsWith(s, pat) ==
    /\ Len(pat) <= Len(s)
    /\ \A i \in 1..Len(pat) : s[i] = pat[i]

\* str.lstrip()
RECURSIVE LStrip(_)
LStrip(s) ==
    IF s /= <<>> /\ IsSpace(Head(s)) THEN LStrip(Tail(s)) ELSE s

\* str.rstrip()
RECURSIVE RStrip(_)
RStrip(s) ==
    IF s /= <<>> /\ IsSpace(s[Len(s)])
    THEN RStrip(SubSeq(s, 1, Len(s) - 1))
    ELSE s

\* str.strip()
Strip(s) == RStrip(LStrip(s))

\* a faulty variant of Replace: only the first occurrence is replaced
\* (str.replace(old, new, 1))
ReplaceFirst(s, old, new) ==
    IF \E i \in 1..Len(s) : StartsWith(SubSeq(s, i, Len(s)), old)
    THEN LET i == CHOOSE j \in 1..Len(s) :
                    /\ StartsWith(SubSeq(s, j, Len(s)), old)
                    /\ \A h \in 1..(j - 1) : ~StartsWith(SubSeq(s, h, Len(s)), old)
         IN SubSeq(s, 1, i - 1) \o new \o SubSeq(s, i + Len(old), Len(s))
    ELSE s

\* str.replace(old, new): the non-overlapping occurrences of old, found
\* scanning from the left, are each replaced by new
RECURSIVE Replace(_, _, _)
Replace(s, old, new) ==
    IF s = <<>> THEN <<>>
    ELSE IF StartsWith(s, old)
         THEN new \o Replace(SubSeq(s, Len(old) + 1, Len(s)), old, new)
         ELSE <<Head(s)>> \o Replace(Tail(s), old, new)

\* a faulty variant of NormalizeContent: the four-space pass runs before the
\* two-space pass
NormalizeFourFirst(s) ==
    Replace(Replace(Replace(Strip(s), Spaces(4), Spaces(1)),
                    Spaces(2), Spaces(1)),
            <<NL, NL>>, <<NL>>)

\* message["content"].strip().replace("  ", " ").replace("    ", " ")
\*                            .replace("\n\n", "\n")
NormalizeContent(s) ==
    Replace(Replace(Replace(Strip(s), Spaces(2), Spaces(1)),
                    Spaces(4), Spaces(1)),
            <<NL, NL>>, <<NL>>)

\* the lengths of the maximal runs of character c in s, left to right
RECURSIVE RunsFrom(_, _, _)
RunsFrom(s, c, cur) ==
    IF s = <<>> THEN (IF cur > 0 THEN <<cur>> ELSE <<>>)
    ELSE IF Head(s) = c THEN RunsFrom(Tail(s), c, cur + 1)
         ELSE (IF cur > 0 THEN <<cur>> ELSE <<>>) \o RunsFrom(Tail(s), c, 0)

RunLengths(s, c) == RunsFrom(s, c, 0)

MaxOf(S) == IF S = {} THEN 0 ELSE CHOOSE x \in S : \A y \in S : y <= x

Range(f) == {f[i] : i \in DOMAIN f}

\* the longest run of c in s (0 when there is none)
LongestRun(s, c) == MaxOf(Range(RunLengths(s, c)))

------------------------------------------------------------------------
(* llm_api_call: dispatch on model_id, one request to the vendor client, *)
(* and the sleep after a fast claude-3 response.                         *)

GPT4 == "gpt-4-turbo-2024-04-09"
Haiku == "claude-3-haiku-20240307"
Sonnet == "claude-3-sonnet-20240229"
Opus == "claude-3-opus-20240229"

\* MODEL_IDS
MODEL_IDS == {GPT4, Haiku, Sonnet, Opus}

\* a model_id outside MODEL_IDS
UnsupportedIds == {"gpt-3.5-turbo"}

\* API latencies (ms between sending the request and the response)
Latencies == {500, 1000}

\* what the vendor call does: returns text, returns no text, or raises
ApiResults == {"text", "none", "error"}

\* the message content the gateway calls are made with
GatewayContents == {<<SP, "a", SP, SP, "a">>}

SleepThresholdMs == 1000
PacedCallMs == 1500
MaxTokens == 1024

\* a faulty variant of ClientFor: the haiku case falls into the openai branch
ClientForHaikuToOpenAI(m) ==
    IF m \in {GPT4, Haiku} THEN "openai"
    ELSE IF m \in {Sonnet, Opus} THEN "anthropic"
    ELSE "none"

\* the match statement on model_id: which client the call goes to
ClientFor(m) ==
    IF m = GPT4 THEN "openai"
    ELSE IF m \in {Haiku, Sonnet, Opus} THEN "anthropic"
    ELSE "none"

\* the sleep after a claude-3 response that took time_taken_in_ms
SleepTimeInMs(time_taken_in_ms) ==
    IF time_taken_in_ms < SleepThresholdMs
    THEN PacedCallMs - time_taken_in_ms
    ELSE 0

Request(client, m, c) ==
    [client |-> client, model |-> m, content |-> NormalizeContent(c),
     temperature |-> 0, max_tokens |-> MaxTokens]

GwInit ==
    /\ clock = 0
    /\ model_id = "none"
    /\ outcome = "none"
    /\ requests = <<>>
    /\ sleep_time_in_ms = 0
    /\ returns_in_window = 0

\* one call llm_api_call(m, [{"role": "user", "content": c}]) whose vendor
\* request takes latency ms and ends as api says
GwCall(m, c, latency, api) ==
    /\ clock < MaxClock
    /\ model_id' = m
    /\ CASE ClientFor(m) = "openai" ->
            /\ requests' = <<Request("openai", m, c)>>
            /\ clock' = clock + latency
            /\ sleep_time_in_ms' = 0
            /\ outcome' = CASE api = "error" -> "APIError"
                            [] api = "none" -> "AssertionError"
                            [] OTHER -> "returned"
            /\ UNCHANGED returns_in_window
         [] ClientFor(m) = "anthropic" ->
            /\ requests' = <<Request("anthropic", m, c)>>
            /\ IF api = "error"
               THEN /\ outcome' = "APIError"
                    /\ clock' = clock + latency
                    /\ sleep_time_in_ms' = 0
                    /\ UNCHANGED returns_in_window
               ELSE /\ outcome' = "returned"
                    /\ sleep_time_in_ms' = SleepTimeInMs(latency)
                    /\ clock' = clock + latency + SleepTimeInMs(latency)
                    /\ returns_in_window' =
                          IF clock' <= 60000
                          THEN returns_in_window + 1
                          ELSE returns_in_window
         [] OTHER ->
            /\ requests' = <<>>
            /\ outcome' = "ValueError"
            /\ sleep_time_in_ms' = 0
            /\ UNCHANGED <<clock, returns_in_window>>

\* no content is being normalised on its own
NormIdle ==
    /\ content = <<>>
    /\ passes = 0
    /\ normalized = <<>>

\* no record is being scored
ScoreIdle ==
    /\ record = [kind |-> "none"]
    /\ last_call = [made |-> FALSE]

\* no table is loaded and no selection has been made
SelectIdle ==
    /\ questions_db = <<>>
    /\ zero_shot_responses_db = <<>>
    /\ desired_subset_size = 0
    /\ select_outcome = "none"
    /\ subset_questions_db = <<>>

\* no generator is running
GenIdle ==
    /\ gen_function = "none"
    /\ gen_model_id = "none"
    /\ gen_question = [id |-> 0, correct_option_index |-> 0]
    /\ gen_pc = "idle"
    /\ gen_prompts = <<>>
    /\ responses = <<>>
    /\ gen_result = <<>>

GatewayInit == GwInit /\ NormIdle /\ ScoreIdle /\ SelectIdle /\ GenIdle

llm_api_call ==
    \E m \in MODEL_IDS \cup UnsupportedIds, c \in GatewayContents,
       latency \in Latencies, api \in ApiResults :
        /\ GwCall(m, c, latency, api)
        /\ UNCHANGED <<normVars, scoreVars, selVars, genVars>>

GatewayNext == llm_api_call

SpecGateway == GatewayInit /\ [][GatewayNext]_vars

------------------------------------------------------------------------
(* Claims about llm_api_call, under SpecGateway *)

\* C1: at most 40 claude-3 calls return within a 60,000 ms window (here
\* the window that opens when the first call starts).
C1_AtMost40PerMinute == returns_in_window <= 40

\* the vendor family that owns a supported model identifier
OwnerOf(m) == IF m = "gpt-4-turbo-2024-04-09" THEN "openai" ELSE "anthropic"

\* C9: a call with a model_id outside the four supported identifiers ends
\* in ValueError with no request sent; a call with a supported model_id
\* sends exactly one request, to the client of the family that owns the
\* identifier.
C9_Dispatch ==
    outcome /= "none" =>
        IF model_id \in MODEL_IDS
        THEN /\ Len(requests) = 1
             /\ requests[1].client = OwnerOf(model_id)
             /\ requests[1].model = model_id
        ELSE /\ outcome = "ValueError"
             /\ requests = <<>>

\* an unsupported call made after supported ones has raised ValueError and
\* sent nothing
C9_Witness ==
    /\ clock > 0
    /\ model_id \in UnsupportedIds
    /\ outcome = "ValueError"
    /\ requests = <<>>

------------------------------------------------------------------------
(* The normalisation applied to one message content, and applied again  *)
(* to its own result.                                                    *)

NormInit ==
    /\ content \in Strings(MaxLen)
    /\ passes = 0
    /\ normalized = <<>>
    /\ GwInit
    /\ ScoreIdle
    /\ SelectIdle
    /\ GenIdle

\* the list comprehension of llm_api_call on one message
Normalize ==
    /\ passes = 0
    /\ normalized' = <<NormalizeContent(content)>>
    /\ passes' = 1
    /\ UNCHANGED <<content, gwVars, scoreVars, selVars, genVars>>

\* the normalised content is passed to llm_api_call again
NormalizeAgain ==
    /\ passes = 1
    /\ normalized' = Append(normalized, NormalizeContent(normalized[1]))
    /\ passes' = 2
    /\ UNCHANGED <<content, gwVars, scoreVars, selVars, genVars>>

NormNext == Normalize \/ NormalizeAgain

SpecNormalize == NormInit /\ [][NormNext]_vars

------------------------------------------------------------------------
(* Claims about the normalisation, under SpecNormalize *)

\* what the code does to a run of n <= 4 spaces
CollapsedRun(n) == IF n <= 2 THEN 1 ELSE 2

\* what C5 as written says it does to a run of n <= 4 spaces
CollapsedRunAsClaimed(n) == IF n = 3 THEN 3 ELSE 1

StrippedRuns == RunLengths(Strip(content), SP)

NormalizedRuns == RunLengths(normalized[1], SP)

\* C5 (as amended): the normalisation keeps the runs of spaces of the
\* stripped content apart, and turns every run of exactly two spaces into
\* one space and every run of exactly three or exactly four spaces into
\* two spaces (a single space stays).
C5_RunsCollapse ==
    passes >= 1 =>
        /\ Len(NormalizedRuns) = Len(StrippedRuns)
        /\ \A i \in 1..Len(StrippedRuns) :
              StrippedRuns[i] <= 4
                  => NormalizedRuns[i] = CollapsedRun(StrippedRuns[i])

\* a content with an interior run of exactly four spaces has been normalised
\* to one with a run of two
C5_Witness ==
    /\ passes = 1
    /\ 4 \in Range(StrippedRuns)
    /\ 2 \in Range(NormalizedRuns)

\* C5 as written: two spaces become one, four spaces become one, three
\* spaces stay three.
C5_Original ==
    passes >= 1 =>
        /\ Len(NormalizedRuns) = Len(StrippedRuns)
        /\ \A i \in 1..Len(StrippedRuns) :
              StrippedRuns[i] <= 4
                  => NormalizedRuns[i] = CollapsedRunAsClaimed(StrippedRuns[i])

\* the longest run of whitespace characters (spaces and newlines) in s
RECURSIVE LongestWhitespaceFrom(_, _)
LongestWhitespaceFrom(s, cur) ==
    IF s = <<>> THEN cur
    ELSE IF IsSpace(Head(s))
         THEN LongestWhitespaceFrom(Tail(s), cur + 1)
         ELSE MaxOf({cur, LongestWhitespaceFrom(Tail(s), 0)})

LongestWhitespaceRun(s) == LongestWhitespaceFrom(s, 0)

\* C6 (as amended): on a content with no run of more than two spaces and
\* no run of more than two newlines, normalising the normalised content
\* again changes nothing.
C6_IdempotentUpToTwo ==
    (passes = 2 /\ LongestRun(content, SP) <= 2 /\ LongestRun(content, NL) <= 2)
        => normalized[2] = normalized[1]

\* a content with a double space and a double newline, which the first
\* application changes, has been normalised twice
C6_Witness ==
    /\ passes = 2
    /\ LongestRun(Strip(content), SP) = 2
    /\ LongestRun(Strip(content), NL) = 2
    /\ normalized[1] /= content

\* C6 as written: idempotent on every content with no whitespace run
\* longer than four characters.
C6_Original ==
    (passes = 2 /\ LongestWhitespaceRun(content) <= 4)
        => normalized[2] = normalized[1]

------------------------------------------------------------------------
(* The response records and their scoring step (data_structures.py).     *)
(* A flag is "True", "False" or "None"; get_is_correct yields "True",    *)
(* "False" or the name of the exception it raises.                       *)

QuestionIds == {1, 2}
OptionIndices == 0..3
ArgumentIds == {1, 2}

\* MMLUMathQuestion, the fields scoring reads
Questions == [id : QuestionIds, correct_option_index : OptionIndices]

\* SelectedOptionArgumentResponse, the fields scoring reads
Arguments == [id : ArgumentIds, question_id : QuestionIds,
              selected_option_index : {0, 1}]

NoArgument == [id |-> 0, question_id |-> 0, selected_option_index |-> 0]

\* the characters response texts are drawn from
ResponseChars == {"A", "B", "C", "D", "a"}

ResponseTexts == UNION {[1..k -> ResponseChars] : k \in 0..MaxResponseLen}

\* the chunks classification verdicts are made of
VerdictChunks == {<<"i", "n">>,
                  <<"c", "o", "r", "r", "e", "c", "t">>,
                  <<"C", "o", "r", "r", "e", "c", "t">>,
                  <<"x">>}

RECURSIVE Flatten(_)
Flatten(chunks) ==
    IF chunks = <<>> THEN <<>> ELSE Head(chunks) \o Flatten(Tail(chunks))

VerdictTexts ==
    {Flatten(cs) : cs \in UNION {[1..k -> VerdictChunks] : k \in 0..MaxVerdictChunks}}

\* str.lower() for the characters of the model
LowerChar(c) ==
    CASE c = "C" -> "c"
      [] c = "A" -> "a"
      [] c = "B" -> "b"
      [] c = "D" -> "d"
      [] OTHER -> c

Lower(s) == [i \in 1..Len(s) |-> LowerChar(s[i])]

\* pat in s
RECURSIVE Contains(_, _)
Contains(s, pat) ==
    IF Len(s) < Len(pat) THEN FALSE
    ELSE IF StartsWith(s, pat) THEN TRUE
    ELSE Contains(Tail(s), pat)

PyBool(b) == IF b THEN "True" ELSE "False"

\* a faulty variant of index_to_label: the labels start at index 1
index_to_label_from_one(index) == <<"D", "A", "B", "C">>[index + 1]

\* index_to_label
index_to_label(index) == <<"A", "B", "C", "D">>[index + 1]

\* ZeroShotFourOptionResponse.get_is_correct
ZeroShotFourOptionResponse_get_is_correct(r, question) ==
    IF r.question_id /= question.id THEN "AssertionError"
    ELSE PyBool(Contains(r.response,
                         <<index_to_label(question.correct_option_index)>>))

\* SelectedOptionArgumentResponse.is_correct_option
is_correct_option(argument, question) ==
    IF argument.question_id /= question.id THEN "AssertionError"
    ELSE PyBool(argument.selected_option_index = question.correct_option_index)

W_incorrect == <<"i", "n", "c", "o", "r", "r", "e", "c", "t">>
W_correct == <<"c", "o", "r", "r", "e", "c", "t">>

\* a faulty variant of ClassificationVerdict: the "correct" branch is tested first
ClassificationVerdictCorrectFirst(classification, argument_is_for_correct_option) ==
    IF Contains(Lower(classification), W_correct)
    THEN PyBool(argument_is_for_correct_option)
    ELSE IF Contains(Lower(classification), W_incorrect)
         THEN PyBool(~argument_is_for_correct_option)
         ELSE "ValueError"

\* the if/elif/else of ArgumentClassificationResponse.get_is_correct
ClassificationVerdict(classification, argument_is_for_correct_option) ==
    IF Contains(Lower(classification), W_incorrect)
    THEN PyBool(~argument_is_for_correct_option)
    ELSE IF Contains(Lower(classification), W_correct)
         THEN PyBool(argument_is_for_correct_option)
         ELSE "ValueError"

\* ArgumentClassificationResponse.get_is_correct
ArgumentClassificationResponse_get_is_correct(r, question, argument) ==
    IF r.argument_id /= argument.id THEN "AssertionError"
    ELSE IF argument.question_id /= question.id THEN "AssertionError"
    ELSE IF is_correct_option(argument, question) = "AssertionError"
         THEN "AssertionError"
         ELSE ClassificationVerdict(r.classification,
                                    is_correct_option(argument, question) = "True")

\* BaseTwoOptionResponse.get_is_correct
BaseTwoOptionResponse_get_is_correct(r, question) ==
    IF r.question_id /= question.id THEN "AssertionError"
    ELSE LET correct_label == IF r.ordering = "correct_first" THEN "A" ELSE "B"
         IN PyBool(Contains(r.response, <<correct_label>>))

\* a faulty variant of Caught: the except clause names AssertionError only
CaughtAssertionOnly(exc) == exc = "AssertionError"

\* except (AssertionError, ValueError)
Caught(exc) == exc \in {"AssertionError", "ValueError"}

\* set_is_correct, given what get_is_correct yielded: the record afterwards
AfterSetIsCorrect(r, got) ==
    IF got \in {"True", "False"} THEN [r EXCEPT !.is_correct = got] ELSE r

\* set_is_correct, given what get_is_correct yielded: what the caller sees
CallOf(question, argument, got) ==
    [made |-> TRUE, question |-> question, argument |-> argument,
     returned |-> IF got \in {"True", "False"} THEN got ELSE "none",
     caught |-> IF got \notin {"True", "False"} /\ Caught(got) THEN got ELSE "none",
     propagated |-> IF got \notin {"True", "False"} /\ ~Caught(got)
                    THEN got ELSE "none"]

\* the records as their producing functions construct them (is_correct = None)
FreshRecords ==
    [kind : {"ZeroShotFourOptionResponse"}, question_id : QuestionIds,
     response : ResponseTexts, is_correct : {"None"}]
    \cup
    [kind : {"ArgumentClassificationResponse"}, argument_id : ArgumentIds,
     classification : VerdictTexts, is_correct : {"None"}]
    \cup
    [kind : {"ZeroShotTwoOptionResponse", "TwoOptionDebateResponse"},
     question_id : QuestionIds, ordering : {"correct_first", "incorrect_first"},
     response : ResponseTexts, is_correct : {"None"}]

ScoreInit ==
    /\ record \in FreshRecords
    /\ last_call = [made |-> FALSE]
    /\ GwInit
    /\ NormIdle
    /\ SelectIdle
    /\ GenIdle

\* ZeroShotFourOptionResponse.set_is_correct(question)
ZeroShotFourOptionResponse_set_is_correct ==
    /\ record.kind = "ZeroShotFourOptionResponse"
    /\ \E question \in Questions :
        LET got == ZeroShotFourOptionResponse_get_is_correct(record, question) IN
        /\ record' = AfterSetIsCorrect(record, got)
        /\ last_call' = CallOf(question, NoArgument, got)
    /\ UNCHANGED <<normVars, gwVars, selVars, genVars>>

\* ArgumentClassificationResponse.set_is_correct(question, argument)
ArgumentClassificationResponse_set_is_correct ==
    /\ record.kind = "ArgumentClassificationResponse"
    /\ \E question \in Questions, argument \in Arguments :
        LET got == ArgumentClassificationResponse_get_is_correct(record, question, argument) IN
        /\ record' = AfterSetIsCorrect(record, got)
        /\ last_call' = CallOf(question, argument, got)
    /\ UNCHANGED <<normVars, gwVars, selVars, genVars>>

\* BaseTwoOptionResponse.set_is_correct(question), on either subclass
BaseTwoOptionResponse_set_is_correct ==
    /\ record.kind \in {"ZeroShotTwoOptionResponse", "TwoOptionDebateResponse"}
    /\ \E question \in Questions :
        LET got == BaseTwoOptionResponse_get_is_correct(record, question) IN
        /\ record' = AfterSetIsCorrect(record, got)
        /\ last_call' = CallOf(question, NoArgument, got)
    /\ UNCHANGED <<normVars, gwVars, selVars, genVars>>

ScoreNext ==
    \/ ZeroShotFourOptionResponse_set_is_correct
    \/ ArgumentClassificationResponse_set_is_correct
    \/ BaseTwoOptionResponse_set_is_correct

SpecScoring == ScoreInit /\ [][ScoreNext]_vars

------------------------------------------------------------------------
(* Claims about the scoring step, under SpecScoring *)

IsClassification == record.kind = "ArgumentClassificationResponse"

\* the last call was given a question or argument that does not match the
\* record r
IdMismatch(r, call) ==
    IF r.kind = "ArgumentClassificationResponse"
    THEN \/ r.argument_id /= call.argument.id
         \/ call.argument.question_id /= call.question.id
    ELSE r.question_id /= call.question.id

\* the text holds the lower-case word w, letter case ignored
HasWordAnyCase(text, w) ==
    \E i \in 1..(Len(text) - Len(w) + 1) :
        \A j \in 1..Len(w) :
            \/ text[i + j - 1] = w[j]
            \/ (text[i + j - 1] = "C" /\ w[j] = "c")

SaysIncorrect(r) ==
    HasWordAnyCase(r.classification,
                   <<"i", "n", "c", "o", "r", "r", "e", "c", "t">>)

SaysCorrect(r) ==
    HasWordAnyCase(r.classification, <<"c", "o", "r", "r", "e", "c", "t">>)

\* the last call was made with mismatching ids, or on a verdict with
\* neither "correct" nor "incorrect" in it
FailingCall(r, call) ==
    /\ call.made
    /\ \/ IdMismatch(r, call)
       \/ (r.kind = "ArgumentClassificationResponse" /\ ~SaysCorrect(r))

\* C4 (as amended): a set_is_correct call with a mismatching question or
\* argument, or on a verdict with neither keyword, lets no exception out
\* and leaves is_correct as it was before the call (None only if no
\* earlier call on the record succeeded).
C4_FailedScoringKeepsFlag ==
    [][FailingCall(record', last_call')
         => /\ last_call'.propagated = "none"
            /\ record'.is_correct = record.is_correct]_vars

\* a record scored successfully before has been scored again with a
\* mismatching id, and still holds the earlier flag
C4_Witness ==
    /\ FailingCall(record, last_call)
    /\ IdMismatch(record, last_call)
    /\ last_call.caught = "AssertionError"
    /\ record.is_correct /= "None"

\* C4 as written: after such a call no exception has propagated and
\* is_correct is None.
C4_Original ==
    FailingCall(record, last_call)
        => /\ last_call.propagated = "none"
           /\ record.is_correct = "None"

\* C7: a classification response scored against its argument and that
\* argument's question, with "correct" or "incorrect" in the verdict (any
\* letter case): get_is_correct returns true iff the verdict agrees with
\* the argument - with "incorrect", iff the argument's option is not the
\* correct one; with "correct" only, iff it is.
C7_VerdictAgreesWithArgument ==
    (/\ IsClassification
     /\ last_call.made
     /\ ~IdMismatch(record, last_call)
     /\ SaysCorrect(record))
        => LET same == last_call.argument.selected_option_index
                         = last_call.question.correct_option_index
           IN last_call.returned
                = (IF SaysIncorrect(record) THEN PyBool(~same) ELSE PyBool(same))

\* a verdict "...inCorrect..." on an argument for a wrong option has been
\* scored true
C7_Witness ==
    /\ IsClassification
    /\ last_call.made
    /\ ~IdMismatch(record, last_call)
    /\ SaysIncorrect(record)
    /\ "C" \in Range(record.classification)
    /\ last_call.returned = "True"

\* the letter the response is expected to hold
ExpectedLabel(r, question) ==
    IF r.kind = "ZeroShotFourOptionResponse"
    THEN CASE question.correct_option_index = 0 -> "A"
           [] question.correct_option_index = 1 -> "B"
           [] question.correct_option_index = 2 -> "C"
           [] question.correct_option_index = 3 -> "D"
    ELSE CASE r.ordering = "correct_first" -> "A"
           [] r.ordering = "incorrect_first" -> "B"

\* C8: a four-option or two-option response scored against the question
\* with its id: get_is_correct returns true iff the expected letter (the
\* label of the correct index; "A" for correct_first, "B" for
\* incorrect_first) occurs in the response text, in that letter case.
C8_LabelIsSubstring ==
    (/\ ~IsClassification
     /\ last_call.made
     /\ ~IdMismatch(record, last_call))
        => last_call.returned
             = PyBool(\E i \in 1..Len(record.response) :
                         record.response[i] = ExpectedLabel(record, last_call.question))

\* an incorrect_first debate response holding "A" and "a" but no "B" has
\* been scored false
C8_Witness ==
    /\ record.kind = "TwoOptionDebateResponse"
    /\ last_call.made
    /\ ~IdMismatch(record, last_call)
    /\ record.ordering = "incorrect_first"
    /\ Range(record.response) = {"A", "a"}
    /\ last_call.returned = "False"

------------------------------------------------------------------------
(* select_subset_of_mmlu_questions (functions.py:161-229).               *)
(* A table (a dict) is the sequence of its [key, value] items in          *)
(* insertion order. The responses table holds the rows of the two models *)
(* the selector reads; its rows are appended grouped by question and     *)
(* model, the only order the selector's per-model dicts depend on being  *)
(* the order among the rows of one question and model.                   *)

Expert == "gpt-4-turbo-2024-04-09"
NonExpert == "claude-3-haiku-20240307"

Flags == {"True", "False", "None"}

\* ZeroShotFourOptionResponse, the fields the selector reads
ResponseRows == [question_id : QuestionIds, model_id : {Expert, NonExpert},
                 is_correct : Flags]

QuestionOf(key) == [id |-> key, correct_option_index |-> key - 1]

Keys(db) == [i \in 1..Len(db) |-> db[i].key]

\* d[key] = value on a dict: a present key keeps its place
DictSet(d, key, value) ==
    IF \E i \in 1..Len(d) : d[i].key = key
    THEN [i \in 1..Len(d) |->
            IF d[i].key = key THEN [key |-> key, value |-> value] ELSE d[i]]
    ELSE Append(d, [key |-> key, value |-> value])

\* d[key]
DictGet(d, key) == d[CHOOSE i \in 1..Len(d) : d[i].key = key].value

HasKey(d, key) == \E i \in 1..Len(d) : d[i].key = key

\* {response.question_id: response for response in db.values()
\*  if response.model_id == m}
RECURSIVE ResponsesOfModel(_, _)
ResponsesOfModel(db, m) ==
    IF db = <<>> THEN <<>>
    ELSE LET front == ResponsesOfModel(SubSeq(db, 1, Len(db) - 1), m)
             response == db[Len(db)]
         IN IF response.model_id = m
            THEN DictSet(front, response.question_id, response)
            ELSE front

PyInt(flag) == IF flag = "True" THEN 1 ELSE 0

\* the same loop skipping a question only when both flags are unresolved
\* (a faulty variant)
RECURSIVE DifferencesSkipBothNone(_, _, _)
DifferencesSkipBothNone(keys, expert_responses, non_expert_responses) ==
    IF keys = <<>> THEN <<>>
    ELSE LET question_id == keys[Len(keys)]
             front == DifferencesSkipBothNone(SubSeq(keys, 1, Len(keys) - 1),
                                  expert_responses, non_expert_responses)
         IN IF front = "KeyError" THEN "KeyError"
            ELSE IF ~HasKey(expert_responses, question_id)
                    \/ ~HasKey(non_expert_responses, question_id)
            THEN "KeyError"
            ELSE LET e == DictGet(expert_responses, question_id).is_correct
                     n == DictGet(non_expert_responses, question_id).is_correct
                 IN IF e = "None" /\ n = "None" THEN front
                    ELSE DictSet(front, question_id, PyInt(e) - PyInt(n))

\* the loop over questions_db.keys() that fills differences; "KeyError"
\* when a question has no entry in one of the two dicts
RECURSIVE Differences(_, _, _)
Differences(keys, expert_responses, non_expert_responses) ==
    IF keys = <<>> THEN <<>>
    ELSE LET question_id == keys[Len(keys)]
             front == Differences(SubSeq(keys, 1, Len(keys) - 1),
                                  expert_responses, non_expert_responses)
         IN IF front = "KeyError" THEN "KeyError"
            ELSE IF ~HasKey(expert_responses, question_id)
                    \/ ~HasKey(non_expert_responses, question_id)
            THEN "KeyError"
            ELSE LET e == DictGet(expert_responses, question_id).is_correct
                     n == DictGet(non_expert_responses, question_id).is_correct
                 IN IF e = "None" \/ n = "None" THEN front
                    ELSE DictSet(front, question_id, PyInt(e) - PyInt(n))

\* insert item before the first item of the sorted list with a smaller
\* value (after the items that compare equal)
RECURSIVE InsertDescending(_, _)
InsertDescending(sorted, item) ==
    IF sorted = <<>> THEN <<item>>
    ELSE IF Head(sorted).value < item.value THEN <<item>> \o sorted
    ELSE <<Head(sorted)>> \o InsertDescending(Tail(sorted), item)

\* a faulty variant of SortedDescending: sorted(..., key=...)[::-1], which turns
\* the order of equal items around
RECURSIVE SortedAscendingReversed(_)
SortedAscendingReversed(items) ==
    IF items = <<>> THEN <<>>
    ELSE LET rest == SortedAscendingReversed(SubSeq(items, 1, Len(items) - 1))
             item == items[Len(items)]
             before == SelectSeq(rest, LAMBDA x : x.value > item.value)
             after == SelectSeq(rest, LAMBDA x : x.value <= item.value)
         IN before \o <<item>> \o after

\* sorted(differences.items(), key=lambda item: item[1], reverse=True):
\* stable, equal items keep their order
RECURSIVE SortedDescending(_)
SortedDescending(items) ==
    IF items = <<>> THEN <<>>
    ELSE InsertDescending(SortedDescending(SubSeq(items, 1, Len(items) - 1)),
                          items[Len(items)])

\* list[:n] for n >= 0
Take(list, n) == SubSeq(list, 1, IF n < Len(list) THEN n ELSE Len(list))

\* the function body: [outcome, subset]
SelectSubset(questions, zero_shot_responses, k) ==
    LET number_of_questions == Len(questions)
        expert_responses == ResponsesOfModel(zero_shot_responses, Expert)
        non_expert_responses == ResponsesOfModel(zero_shot_responses, NonExpert)
        differences == Differences(Keys(questions), expert_responses,
                                   non_expert_responses)
        Fail(e) == [outcome |-> e, subset |-> <<>>]
    IN IF ~(k <= number_of_questions) THEN Fail("AssertionError")
       ELSE IF Len(expert_responses) /= number_of_questions
       THEN Fail("AssertionError")
       ELSE IF Len(non_expert_responses) /= number_of_questions
       THEN Fail("AssertionError")
       ELSE IF differences = "KeyError" THEN Fail("KeyError")
       ELSE LET sorted_differences == SortedDescending(differences)
                chosen == Take(Keys(sorted_differences), k)
            IN [outcome |-> "returned",
                subset |-> [i \in 1..Len(chosen) |->
                              [key |-> chosen[i],
                               value |-> DictGet(questions, chosen[i])]]]

RowRank(row) == 2 * row.question_id + (IF row.model_id = Expert THEN 0 ELSE 1)

SelectInit ==
    /\ SelectIdle
    /\ GwInit
    /\ NormIdle
    /\ ScoreIdle
    /\ GenIdle

\* the dataset loader puts a question into the table
AddQuestion ==
    /\ select_outcome = "none"
    /\ zero_shot_responses_db = <<>>
    /\ \E key \in QuestionIds :
        /\ ~HasKey(questions_db, key)
        /\ questions_db' = Append(questions_db,
                                  [key |-> key, value |-> QuestionOf(key)])
    /\ UNCHANGED <<zero_shot_responses_db, desired_subset_size, select_outcome,
                   subset_questions_db>>
    /\ UNCHANGED <<normVars, gwVars, scoreVars, genVars>>

\* the driver stores a zero-shot response, scored or not
AddResponse ==
    /\ select_outcome = "none"
    /\ Len(zero_shot_responses_db) < MaxResponses
    /\ \E row \in ResponseRows :
        /\ zero_shot_responses_db /= <<>> =>
             RowRank(zero_shot_responses_db[Len(zero_shot_responses_db)])
                <= RowRank(row)
        /\ zero_shot_responses_db' = Append(zero_shot_responses_db, row)
    /\ UNCHANGED <<questions_db, desired_subset_size, select_outcome,
                   subset_questions_db>>
    /\ UNCHANGED <<normVars, gwVars, scoreVars, genVars>>

\* select_subset_of_mmlu_questions(questions_db, zero_shot_responses_db, k)
select_subset_of_mmlu_questions ==
    /\ select_outcome = "none"
    /\ \E k \in 0..(Cardinality(QuestionIds) + 1) :
        LET r == SelectSubset(questions_db, zero_shot_responses_db, k) IN
        /\ desired_subset_size' = k
        /\ select_outcome' = r.outcome
        /\ subset_questions_db' = r.subset
    /\ UNCHANGED <<questions_db, zero_shot_responses_db>>
    /\ UNCHANGED <<normVars, gwVars, scoreVars, genVars>>

SelectNext ==
    \/ AddQuestion
    \/ AddResponse
    \/ select_subset_of_mmlu_questions

SpecSelect == SelectInit /\ [][SelectNext]_vars

------------------------------------------------------------------------
(* Claims about the subset selector, under SpecSelect *)

QuestionKeys == {questions_db[i].key : i \in 1..Len(questions_db)}

\* the rows of the responses table for question q by model m
RowsOf(q, m) ==
    {i \in 1..Len(zero_shot_responses_db) :
        /\ zero_shot_responses_db[i].question_id = q
        /\ zero_shot_responses_db[i].model_id = m}

RowsOfModel(m) ==
    {i \in 1..Len(zero_shot_responses_db) :
        zero_shot_responses_db[i].model_id = m}

\* k is no more than the number of questions, and the table holds exactly
\* one expert and one non-expert response for each question and no others
PreconditionsHold ==
    /\ desired_subset_size <= Len(questions_db)
    /\ \A q \in QuestionKeys :
        /\ Cardinality(RowsOf(q, Expert)) = 1
        /\ Cardinality(RowsOf(q, NonExpert)) = 1
    /\ Cardinality(RowsOfModel(Expert)) = Len(questions_db)
    /\ Cardinality(RowsOfModel(NonExpert)) = Len(questions_db)

FlagOf(q, m) ==
    zero_shot_responses_db[CHOOSE i \in RowsOf(q, m) : TRUE].is_correct

FullyScored(q) == FlagOf(q, Expert) /= "None" /\ FlagOf(q, NonExpert) /= "None"

Diff(q) ==
    (IF FlagOf(q, Expert) = "True" THEN 1 ELSE 0)
      - (IF FlagOf(q, NonExpert) = "True" THEN 1 ELSE 0)

PositionOf(q) == CHOOSE i \in 1..Len(questions_db) : questions_db[i].key = q

\* q comes before p: a larger difference, or the same difference and an
\* earlier place in the questions table
Precedes(q, p) ==
    \/ Diff(q) > Diff(p)
    \/ (Diff(q) = Diff(p) /\ PositionOf(q) < PositionOf(p))

SubsetKeys == {subset_questions_db[i].key : i \in 1..Len(subset_questions_db)}

\* C2: when the preconditions hold the selector returns, in order, the
\* first k of the fully scored questions ordered by difference descending
\* with equal differences in questions-table order: a returned question
\* precedes every fully scored question that is not returned.
C2_TopKByDifference ==
    (select_outcome /= "none" /\ PreconditionsHold) =>
        /\ select_outcome = "returned"
        /\ SubsetKeys \subseteq {q \in QuestionKeys : FullyScored(q)}
        /\ \A i, j \in 1..Len(subset_questions_db) :
             i < j => Precedes(subset_questions_db[i].key,
                               subset_questions_db[j].key)
        /\ \A q \in SubsetKeys :
             \A p \in QuestionKeys \ SubsetKeys :
                FullyScored(p) => Precedes(q, p)
        /\ LET scored == Cardinality({q \in QuestionKeys : FullyScored(q)})
           IN Len(subset_questions_db)
                = (IF desired_subset_size < scored
                   THEN desired_subset_size ELSE scored)

\* questions 2 and 1, inserted in that order and with the same difference:
\* the selector asked for one question has returned question 2
C2_Witness ==
    /\ select_outcome = "returned"
    /\ PreconditionsHold
    /\ Keys(questions_db) = <<2, 1>>
    /\ Diff(1) = Diff(2)
    /\ FullyScored(1) /\ FullyScored(2)
    /\ desired_subset_size = 1
    /\ Keys(subset_questions_db) = <<2>>

\* C3: the selector fails with AssertionError whenever the number of
\* expert rows or of non-expert rows differs from the number of
\* questions, and returns only when each question has exactly one expert
\* and exactly one non-expert row.
C3_OneResponsePerQuestion ==
    select_outcome /= "none" =>
        /\ (\/ Cardinality(RowsOfModel(Expert)) /= Len(questions_db)
            \/ Cardinality(RowsOfModel(NonExpert)) /= Len(questions_db))
              => (select_outcome = "AssertionError" /\ subset_questions_db = <<>>)
        /\ select_outcome = "returned"
              => \A q \in QuestionKeys :
                    /\ Cardinality(RowsOf(q, Expert)) = 1
                    /\ Cardinality(RowsOf(q, NonExpert)) = 1

\* the response of model m to question q that the selector reads: the last
\* such row of the responses table
ResponseOf(q, m) ==
    zero_shot_responses_db[CHOOSE i \in RowsOf(q, m) :
                              \A j \in RowsOf(q, m) : j <= i]

\* both responses to q have a resolved is_correct flag
Resolved(q) ==
    /\ ResponseOf(q, Expert).is_correct /= "None"
    /\ ResponseOf(q, NonExpert).is_correct /= "None"

\* R, the number of questions whose two responses are both resolved
NumberResolved == Cardinality({q \in QuestionKeys : Resolved(q)})

MinOf(a, b) == IF a < b THEN a ELSE b

\* C11: whenever the selector returns, the returned table has exactly
\* min(k, R) entries, R being the number of questions whose expert and
\* non-expert responses are both resolved; its keys are distinct keys of
\* the questions table, each mapped to the question the questions table
\* holds for it; no returned question has an unresolved flag; and the table
\* holds fewer than k questions when fewer than k are fully scored.
C11_ReturnsMinOfKAndResolved ==
    select_outcome = "returned" =>
        /\ Len(subset_questions_db) = MinOf(desired_subset_size, NumberResolved)
        /\ Cardinality(SubsetKeys) = Len(subset_questions_db)
        /\ \A i \in 1..Len(subset_questions_db) :
             /\ subset_questions_db[i].key \in QuestionKeys
             /\ subset_questions_db[i].value
                  = questions_db[PositionOf(subset_questions_db[i].key)].value
             /\ Resolved(subset_questions_db[i].key)
        /\ NumberResolved < desired_subset_size
             => Len(subset_questions_db) < desired_subset_size

\* two questions of which only question 2 is fully scored: the selector
\* asked for two has returned question 2 alone
C11_Witness ==
    /\ select_outcome = "returned"
    /\ Keys(questions_db) = <<1, 2>>
    /\ desired_subset_size = 2
    /\ ~Resolved(1) /\ Resolved(2)
    /\ NumberResolved = 1
    /\ subset_questions_db = <<[key |-> 2, value |-> QuestionOf(2)]>>

------------------------------------------------------------------------
(* generate_zero_shot_two_option_responses and                            *)
(* generate_two_option_debate_responses (functions.py:116-158, 251-305): *)
(* one step per loop iteration, each making one llm_api_call.            *)

ZeroShotTwoOption == "generate_zero_shot_two_option_responses"
TwoOptionDebate == "generate_two_option_debate_responses"

\* the arguments handed to the debate generator
CorrectArgument == [id |-> 1]
IncorrectArgument == [id |-> 2]

\* the texts a vendor answers with
AnswerTexts == {<<"A">>, <<"B">>}

\* a faulty variant of first_incorrect_option_index: the option after the correct one
next_option_index(correct_option_index) == (correct_option_index + 1) % 4

\* MMLUMathQuestion.first_incorrect_option_index:
\* [i for i in range(4) if i != self.correct_option_index][0]
first_incorrect_option_index(correct_option_index) ==
    SelectSeq(<<0, 1, 2, 3>>, LAMBDA i : i /= correct_option_index)[1]

\* correct_first_option_indices
correct_first_option_indices(question) ==
    <<question.correct_option_index,
      first_incorrect_option_index(question.correct_option_index)>>

Reversed(pair) == <<pair[2], pair[1]>>

\* the list the for loop runs over
Orderings(question) ==
    <<[ordering_name |-> "correct_first",
       indices |-> correct_first_option_indices(question)],
      [ordering_name |-> "incorrect_first",
       indices |-> Reversed(correct_first_option_indices(question))]>>

\* arguments_by_option_index[option_index]
ArgumentByOptionIndex(question, option_index) ==
    IF option_index = first_incorrect_option_index(question.correct_option_index)
    THEN IncorrectArgument
    ELSE CorrectArgument

\* what the prompt of one iteration shows
Prompt(fn, question, indices) ==
    IF fn = TwoOptionDebate
    THEN [option_a |-> indices[1], option_b |-> indices[2],
          argument_a |-> ArgumentByOptionIndex(question, indices[1]).id,
          argument_b |-> ArgumentByOptionIndex(question, indices[2]).id]
    ELSE [option_a |-> indices[1], option_b |-> indices[2]]

\* the record appended in one iteration
TwoOptionRecord(fn, m, question, ordering_name, response) ==
    IF fn = TwoOptionDebate
    THEN [kind |-> "TwoOptionDebateResponse",
          question_id |-> question.id,
          correct_option_index |-> question.correct_option_index,
          correct_option_argument_id |->
              ArgumentByOptionIndex(question, question.correct_option_index).id,
          incorrect_option_index |->
              first_incorrect_option_index(question.correct_option_index),
          incorrect_option_argument_id |->
              ArgumentByOptionIndex(question,
                  first_incorrect_option_index(question.correct_option_index)).id,
          ordering |-> ordering_name, model_id |-> m, response |-> response,
          is_correct |-> "None"]
    ELSE [kind |-> "ZeroShotTwoOptionResponse",
          question_id |-> question.id,
          correct_option_index |-> question.correct_option_index,
          incorrect_option_index |->
              first_incorrect_option_index(question.correct_option_index),
          ordering |-> ordering_name, model_id |-> m, response |-> response,
          is_correct |-> "None"]

GenInit ==
    /\ GenIdle
    /\ GwInit
    /\ NormIdle
    /\ ScoreIdle
    /\ SelectIdle

\* the generator is called: its locals are set up
StartGenerator ==
    /\ gen_pc = "idle"
    /\ \E fn \in {ZeroShotTwoOption, TwoOptionDebate},
          m \in MODEL_IDS \cup UnsupportedIds, question \in Questions :
        /\ gen_function' = fn
        /\ gen_model_id' = m
        /\ gen_question' = question
    /\ gen_pc' = "loop"
    /\ gen_prompts' = <<>>
    /\ responses' = <<>>
    /\ gen_result' = <<>>
    /\ UNCHANGED <<normVars, gwVars, scoreVars, selVars>>

\* one iteration of the for loop: build the prompt, call llm_api_call,
\* append the record; an error of the call leaves the generator
LoopIteration ==
    /\ gen_pc = "loop"
    /\ Len(responses) < Len(Orderings(gen_question))
    /\ LET it == Orderings(gen_question)[Len(responses) + 1] IN
       \E c \in GatewayContents, latency \in Latencies, api \in ApiResults,
          text \in AnswerTexts :
        /\ GwCall(gen_model_id, c, latency, api)
        /\ gen_prompts' = Append(gen_prompts,
                                 Prompt(gen_function, gen_question, it.indices))
        /\ IF outcome' = "returned"
           THEN /\ responses' =
                      Append(responses,
                             TwoOptionRecord(gen_function, gen_model_id,
                                 gen_question, it.ordering_name,
                                 IF api = "text" THEN text ELSE "None"))
                /\ UNCHANGED <<gen_pc, gen_result>>
           ELSE /\ gen_pc' = "raised"
                /\ UNCHANGED <<responses, gen_result>>
    /\ UNCHANGED <<gen_function, gen_model_id, gen_question>>
    /\ UNCHANGED <<normVars, scoreVars, selVars>>

\* return responses
ReturnResponses ==
    /\ gen_pc = "loop"
    /\ Len(responses) = Len(Orderings(gen_question))
    /\ gen_pc' = "returned"
    /\ gen_result' = responses
    /\ UNCHANGED <<gen_function, gen_model_id, gen_question, gen_prompts,
                   responses>>
    /\ UNCHANGED <<normVars, gwVars, scoreVars, selVars>>

GenNext ==
    \/ StartGenerator
    \/ LoopIteration
    \/ ReturnResponses

SpecTwoOption == GenInit /\ [][GenNext]_vars

------------------------------------------------------------------------
(* Claims about the two-option generators, under SpecTwoOption *)

\* the lowest option index that is not c
LowestOther(c) ==
    CHOOSE i \in 0..3 : i /= c /\ \A j \in 0..3 : j < i => j = c

\* C10: a generator that returns has issued exactly two gateway calls, the
\* first showing the correct option as Option A and the second showing the
\* first incorrect option (the lowest index other than the correct one) as
\* Option A, and returns two records in that order, tagged correct_first
\* and incorrect_first, both with the same two distinct indices; a
\* generator left by an error of a gateway call has issued no call after
\* the failing one and returned no records.
C10_TwoCallsTwoRecords ==
    LET c == gen_question.correct_option_index
        w == LowestOther(c)
    IN /\ Len(gen_prompts) <= 2
       /\ gen_pc = "returned" =>
            /\ Len(gen_prompts) = 2
            /\ gen_prompts[1].option_a = c /\ gen_prompts[1].option_b = w
            /\ gen_prompts[2].option_a = w /\ gen_prompts[2].option_b = c
            /\ Len(gen_result) = 2
            /\ gen_result[1].ordering = "correct_first"
            /\ gen_result[2].ordering = "incorrect_first"
            /\ \A i \in 1..2 :
                 /\ gen_result[i].correct_option_index = c
                 /\ gen_result[i].incorrect_option_index = w
                 /\ gen_result[i].correct_option_index
                      /= gen_result[i].incorrect_option_index
       /\ gen_pc = "raised" =>
            /\ outcome \notin {"none", "returned"}
            /\ Len(gen_prompts) = Len(responses) + 1
            /\ gen_result = <<>>

\* the debate generator has returned for a question whose correct option
\* is the first one, after showing option 1 as Option A in its second call
C10_Witness ==
    /\ gen_pc = "returned"
    /\ gen_function = TwoOptionDebate
    /\ gen_question.correct_option_index = 0
    /\ gen_prompts[2].option_a = 1
    /\ Len(gen_result) = 2

=============================================================================
